---- MODULE Spec2Model ----
(***************************************************************************)
(* Model of streamlit_app.py, the VO2max calculator.                       *)
(*                                                                         *)
(* Numbers.  The program computes with Python floats, which are IEEE 754   *)
(* doubles.  The model computes with the same doubles: a sign, a mantissa  *)
(* of 53 binary digits and an exponent, every operation rounded to the     *)
(* nearest double with ties to the even mantissa, and the f-string formats *)
(* rounding the exact binary value.  A float literal such as 8.87 is the   *)
(* double nearest to 887/100.  Body weight is entered in tenths of a       *)
(* kilogram, and the widget returns the double nearest to that decimal.    *)
(*                                                                         *)
(* Two specifications share the module:                                    *)
(*   Spec      the Streamlit page: every user action reruns the script     *)
(*             top to bottom, a button reads True only in the rerun its    *)
(*             own press triggers;                                         *)
(*   SpecCalc  the functions of the script called directly, with inputs    *)
(*             inside and outside the ranges the page's widgets enforce.   *)
(***************************************************************************)
EXTENDS Integers, Sequences, FiniteSets, TLC

VARIABLES
    inputs,     \* Spec: the value of each number_input widget, by key
    trigger,    \* Spec: the widget whose change caused the last script run
    page,       \* Spec: what the last script run rendered
    call,       \* SpecCalc: the direct call in progress: function and arguments
    res         \* SpecCalc: what that call returned or raised

vars == <<inputs, trigger, page, call, res>>

None == [kind |-> "none"]

----------------------------------------------------------------------------
(* Bounds of the model: how many sample points each input range is cut into *)

\* SpecCalc: the weight range is sampled at WeightSamples + 1 points
WeightSamples == 3
\* SpecCalc: each power range is sampled at PowerSamples + 1 points
PowerSamples == 3
\* SpecCalc: the seconds range is sampled at SecsSamples + 1 points
SecsSamples == 4
\* SpecCalc: display_results is called on values k/2 for k up to twice this
MaxVo2 == 80
\* Spec: the user has at most MaxEdited widgets away from their defaults
MaxEdited == 3

----------------------------------------------------------------------------
(* The ranges the number_input widgets enforce; weights in tenths of a kg  *)

WeightMin10 == 300
WeightMax10 == 1500
WeightDefault10 == 700
PowerMin == 50
PowerMax == 600
Power5Default == 300
Power6Default == 290
RampPowerMin == 100
RampPowerDefault == 325
SecsMin == 0
SecsMax == 60
SecsDefault == 30
FtpMax == 500
FtpDefault == 250

----------------------------------------------------------------------------
(* Natural numbers of any size: the sequence of their digits in base 2^15, *)
(* least significant first, without leading zero digits; <<>> is zero.     *)

Base == 32768
LimbBits == 15
MantBits == 53

RECURSIVE Pow2(_)
Pow2(k) == IF k = 0 THEN 1 ELSE 2 * Pow2(k - 1)

RECURSIVE BTrim(_)
BTrim(a) ==
    IF a = <<>> THEN a
    ELSE IF a[Len(a)] = 0 THEN BTrim(SubSeq(a, 1, Len(a) - 1)) ELSE a

RECURSIVE BFromInt(_)
BFromInt(i) == IF i = 0 THEN <<>> ELSE <<i % Base>> \o BFromInt(i \div Base)

\* the value of a, which must be below 2^30
BToInt(a) ==
    IF a = <<>> THEN 0 ELSE IF Len(a) = 1 THEN a[1] ELSE a[1] + Base * a[2]

Limb(a, i) == IF i <= Len(a) THEN a[i] ELSE 0

\* a + b + c from digit i on
RECURSIVE BAddFrom(_, _, _, _)
BAddFrom(a, b, i, c) ==
    IF i > Len(a) /\ i > Len(b) THEN (IF c = 0 THEN <<>> ELSE <<c>>)
    ELSE <<(Limb(a, i) + Limb(b, i) + c) % Base>>
           \o BAddFrom(a, b, i + 1, (Limb(a, i) + Limb(b, i) + c) \div Base)

BAdd(a, b) == BAddFrom(a, b, 1, 0)

\* a - b - c from digit i on, for a >= b
RECURSIVE BSubFrom(_, _, _, _)
BSubFrom(a, b, i, c) ==
    IF i > Len(a) THEN <<>>
    ELSE <<(a[i] - Limb(b, i) - c) % Base>>
           \o BSubFrom(a, b, i + 1, IF a[i] - Limb(b, i) - c < 0 THEN 1 ELSE 0)

BSub(a, b) == BTrim(BSubFrom(a, b, 1, 0))

\* -1, 0, 1 as a <, =, > b, comparing from digit i down
RECURSIVE BCmpFrom(_, _, _)
BCmpFrom(a, b, i) ==
    IF i = 0 THEN 0
    ELSE IF a[i] < b[i] THEN -1
    ELSE IF a[i] > b[i] THEN 1
    ELSE BCmpFrom(a, b, i - 1)

BCmp(a, b) ==
    IF Len(a) < Len(b) THEN -1
    ELSE IF Len(a) > Len(b) THEN 1
    ELSE BCmpFrom(a, b, Len(a))

\* a * k + c from digit i on, for 0 <= k < 2^15
RECURSIVE BMulSmallFrom(_, _, _, _)
BMulSmallFrom(a, k, i, c) ==
    IF i > Len(a) THEN (IF c = 0 THEN <<>> ELSE <<c>>)
    ELSE <<(a[i] * k + c) % Base>> \o BMulSmallFrom(a, k, i + 1, (a[i] * k + c) \div Base)

BMulSmall(a, k) == IF k = 0 THEN <<>> ELSE BMulSmallFrom(a, k, 1, 0)

\* a * (the digits of b from i on)
RECURSIVE BMulFrom(_, _, _)
BMulFrom(a, b, i) ==
    IF i > Len(b) THEN <<>>
    ELSE BAdd(BMulSmall(a, b[i]), <<0>> \o BMulFrom(a, b, i + 1))

BMul(a, b) == IF a = <<>> THEN <<>> ELSE BTrim(BMulFrom(a, b, 1))

\* a * 2^n
BShl(a, n) ==
    IF a = <<>> THEN <<>>
    ELSE [i \in 1..(n \div LimbBits) |-> 0] \o BMulSmall(a, Pow2(n % LimbBits))

\* the digits of floor(a / k) from digit i down, r the remainder so far
RECURSIVE BDivSmallFrom(_, _, _, _)
BDivSmallFrom(a, k, i, r) ==
    IF i = 0 THEN <<>>
    ELSE BDivSmallFrom(a, k, i - 1, (r * Base + a[i]) % k)
           \o <<(r * Base + a[i]) \div k>>

\* floor(a / 2^n)
BShr(a, n) ==
    IF n \div LimbBits >= Len(a) THEN <<>>
    ELSE BTrim(BDivSmallFrom(SubSeq(a, n \div LimbBits + 1, Len(a)),
                             Pow2(n % LimbBits), Len(a) - n \div LimbBits, 0))

RECURSIVE IntBitLen(_)
IntBitLen(i) == IF i = 0 THEN 0 ELSE 1 + IntBitLen(i \div 2)

\* the number of binary digits of a
BBitLen(a) == IF a = <<>> THEN 0 ELSE LimbBits * (Len(a) - 1) + IntBitLen(a[Len(a)])

BIsOdd(a) == a # <<>> /\ a[1] % 2 = 1

\* floor(a / 2^n), rounded up when the part cut off is above one half of
\* 2^n, or is one half and the floor is odd
BShrRoundLow(a, n, q) ==
    LET c == BCmp(BSub(a, BShl(q, n)), BShl(<<1>>, n - 1))
    IN  IF c > 0 \/ (c = 0 /\ BIsOdd(q)) THEN BAdd(q, <<1>>) ELSE q

BShrRound(a, n) == BShrRoundLow(a, n, BShr(a, n))

----------------------------------------------------------------------------
(* IEEE 754 doubles: [s |-> sign bit, m |-> mantissa, e |-> exponent] with *)
(* the value (-1)^s * m * 2^e, the mantissa a natural number of exactly 53 *)
(* binary digits, or zero with exponent 0.  Every operation rounds its     *)
(* exact result to the nearest double, ties to the even mantissa.  The     *)
(* values of the program stay far from overflow and from the subnormals.   *)

FZero(s) == [s |-> s, m |-> <<>>, e |-> 0]

\* m * 2^e for a mantissa m of at most 54 binary digits after rounding
FPack(s, m, e) ==
    IF BBitLen(m) > MantBits THEN [s |-> s, m |-> BShr(m, 1), e |-> e + 1]
    ELSE [s |-> s, m |-> m, e |-> e]

\* the double nearest to (-1)^s * m * 2^e, for m of l > 0 binary digits
FRoundLen(s, m, e, l) ==
    IF l <= MantBits THEN [s |-> s, m |-> BShl(m, MantBits - l), e |-> e - (MantBits - l)]
    ELSE FPack(s, BShrRound(m, l - MantBits), e + (l - MantBits))

FRound(s, m, e) == IF m = <<>> THEN FZero(s) ELSE FRoundLen(s, m, e, BBitLen(m))

\* float(i) for an int i
FromInt(i) == FRound(IF i < 0 THEN 1 ELSE 0, BFromInt(IF i < 0 THEN -i ELSE i), 0)

FNeg(a) == [a EXCEPT !.s = 1 - a.s]

FMul(a, b) == FRound((a.s + b.s) % 2, BMul(a.m, b.m), a.e + b.e)

\* -1, 0, 1 as |a| <, =, > |b|
FCmpAbs(a, b) ==
    IF a.m = <<>> THEN (IF b.m = <<>> THEN 0 ELSE -1)
    ELSE IF b.m = <<>> THEN 1
    ELSE IF a.e < b.e THEN -1
    ELSE IF a.e > b.e THEN 1
    ELSE BCmp(a.m, b.m)

\* -1, 0, 1 as a <, ==, > b; the two zeros are equal
FCmp(a, b) ==
    IF a.m = <<>> /\ b.m = <<>> THEN 0
    ELSE IF a.s # b.s THEN (IF a.s = 1 THEN -1 ELSE 1)
    ELSE IF a.s = 0 THEN FCmpAbs(a, b) ELSE -FCmpAbs(a, b)

FLt(a, b) == FCmp(a, b) < 0

FLe(a, b) == FCmp(a, b) <= 0

\* a + b for nonzero a, b with a.e >= b.e: a's mantissa brought to b's exponent
FAddAligned(a, b, am) ==
    IF a.s = b.s THEN FRound(a.s, BAdd(am, b.m), b.e)
    ELSE IF BCmp(am, b.m) = 0 THEN FZero(0)
    ELSE IF BCmp(am, b.m) > 0 THEN FRound(a.s, BSub(am, b.m), b.e)
    ELSE FRound(b.s, BSub(b.m, am), b.e)

FAdd(a, b) ==
    IF a.m = <<>> /\ b.m = <<>> THEN FZero(IF a.s = 1 /\ b.s = 1 THEN 1 ELSE 0)
    ELSE IF a.m = <<>> THEN b
    ELSE IF b.m = <<>> THEN a
    ELSE IF a.e >= b.e THEN FAddAligned(a, b, BShl(a.m, a.e - b.e))
    ELSE FAddAligned(b, a, BShl(b.m, b.e - a.e))

FSub(a, b) == FAdd(a, FNeg(b))

DigitBits == 8
DigitBase == 256

\* a \div 2^30, for a below 2^60
DivTop(a) == Limb(a, 3) + Base * Limb(a, 4)

\* <<q + r \div d, r % d>>, by subtraction
RECURSIVE DivFix(_, _, _)
DivFix(r, d, q) ==
    IF BCmp(r, d) >= 0 THEN DivFix(BSub(r, d), d, q + 1) ELSE <<q, r>>

\* <<(DigitBase * r) \div d, (DigitBase * r) % d>> for r < d and d of 53
\* binary digits: the digit is estimated from below on the leading binary
\* digits of r and d, and the estimate is corrected on the remainder
DivDigit(r, d) ==
    LET qhat == (DivTop(r) * DigitBase) \div (DivTop(d) + 1)
    IN  DivFix(BSub(BMulSmall(r, DigitBase), BMulSmall(d, qhat)), d, qhat)

\* k more digits, base DigitBase, of r / d for r < d: <<the digits, whether
\* a remainder is left>>; q holds the digits found so far
RECURSIVE DivDigits(_, _, _, _)
DivNext(qr, d, k, q) ==
    DivDigits(qr[2], d, k - 1, BAdd(BMulSmall(q, DigitBase), BFromInt(qr[1])))
DivDigits(r, d, k, q) ==
    IF k = 0 \/ Len(q) < 0 THEN <<q, r # <<>>>>
    ELSE DivNext(DivDigit(r, d), d, k, q)

\* the quotient digits qr[1], followed by a one when a remainder is left
StickyQuotient(qr) ==
    IF qr[2] THEN BAdd(BMulSmall(qr[1], 2), <<1>>) ELSE BMulSmall(qr[1], 2)

\* the leading digit qr[1] of a quotient with the remainder qr[2], followed
\* by 7 digits base DigitBase and the sticky digit: 57 binary digits in all
DivFrom(qr, d) == StickyQuotient(DivDigits(qr[2], d, 7, BFromInt(qr[1])))

\* a / b for b # 0
FDiv(a, b) ==
    IF a.m = <<>> THEN FZero((a.s + b.s) % 2)
    ELSE FRound((a.s + b.s) % 2, DivFrom(DivFix(a.m, b.m, 0), b.m),
                a.e - b.e - (7 * DigitBits + 1))

\* the double a decimal literal n/d denotes
Lit(n, d) == FDiv(FromInt(n), FromInt(d))

\* a weight of w10 tenths of a kilogram, as the float the widget returns
Kg(w10) == Lit(w10, 10)

----------------------------------------------------------------------------
(* The calculation functions.  Each returns [kind |-> "ok", ...] with the  *)
(* four values of the tuple it returns, or [kind |-> "raise", ...] with    *)
(* the exception a division by zero raises.  Arguments are doubles, an int *)
(* argument being the double it converts to; time_to_exhaustion is an int. *)

\* the float literals of the four formulas
Intercept5min == Lit(166, 10)
Slope5min == Lit(887, 100)
Slope6min == Lit(108, 10)
Offset6min == FromInt(7)
StageIncrement == FromInt(25)
RampDivisor == FromInt(150)
RampSlope == Lit(1141, 100000)
RampIntercept == Lit(435, 1000)
MlPerLitre == FromInt(1000)
FtpFactor == Lit(117, 100)

Ok(power_vo2max, power_kg, vo2max_ml_min, vo2max_ml_kg_min) ==
    [kind |-> "ok", power_vo2max |-> power_vo2max, power_kg |-> power_kg,
     vo2max_ml_min |-> vo2max_ml_min, vo2max_ml_kg_min |-> vo2max_ml_kg_min]

Raise(exc) == [kind |-> "raise", exc |-> exc]

\* calculate_vo2max_5min with the slope subtracted instead of added
calculate_vo2max_5min_minus(weight, power) ==
    IF weight.m = <<>> THEN Raise("ZeroDivisionError")
    ELSE LET power_to_weight == FDiv(power, weight)
             vo2max_ml_kg_min == FSub(Intercept5min, FMul(Slope5min, power_to_weight))
             vo2max_ml_min == FMul(vo2max_ml_kg_min, weight)
         IN  Ok(power, power_to_weight, vo2max_ml_min, vo2max_ml_kg_min)

calculate_vo2max_5min(weight, power) ==
    IF weight.m = <<>> THEN Raise("ZeroDivisionError")
    ELSE LET power_to_weight == FDiv(power, weight)
             vo2max_ml_kg_min == FAdd(Intercept5min, FMul(Slope5min, power_to_weight))
             vo2max_ml_min == FMul(vo2max_ml_kg_min, weight)
         IN  Ok(power, power_to_weight, vo2max_ml_min, vo2max_ml_kg_min)

calculate_vo2max_6min(weight, power) ==
    IF weight.m = <<>> THEN Raise("ZeroDivisionError")
    ELSE LET vo2max_ml_kg_min == FAdd(FDiv(FMul(power, Slope6min), weight), Offset6min)
             vo2max_ml_min == FMul(vo2max_ml_kg_min, weight)
         IN  Ok(power, FDiv(power, weight), vo2max_ml_min, vo2max_ml_kg_min)

\* Maximal aerobic power of the ramp test
map_power(final_power, time_to_exhaustion) ==
    LET next_to_last_power == FSub(final_power, StageIncrement)
        seconds_in_final_stage == time_to_exhaustion % 60
    IN  FAdd(next_to_last_power,
             FMul(FDiv(FromInt(seconds_in_final_stage), RampDivisor), StageIncrement))

\* calculate_vo2max_ramp dividing the litres, not the millilitres, by the weight
calculate_vo2max_ramp_litres(weight, final_power, time_to_exhaustion) ==
    LET vo2max_power == map_power(final_power, time_to_exhaustion)
        vo2max_l_min == FAdd(FMul(RampSlope, vo2max_power), RampIntercept)
        vo2max_ml_min == FMul(vo2max_l_min, MlPerLitre)
    IN  IF weight.m = <<>> THEN Raise("ZeroDivisionError")
        ELSE Ok(vo2max_power, FDiv(vo2max_power, weight), vo2max_ml_min,
                FDiv(vo2max_l_min, weight))

calculate_vo2max_ramp(weight, final_power, time_to_exhaustion) ==
    LET vo2max_power == map_power(final_power, time_to_exhaustion)
        vo2max_l_min == FAdd(FMul(RampSlope, vo2max_power), RampIntercept)
        vo2max_ml_min == FMul(vo2max_l_min, MlPerLitre)
    IN  IF weight.m = <<>> THEN Raise("ZeroDivisionError")
        ELSE Ok(vo2max_power, FDiv(vo2max_power, weight), vo2max_ml_min,
                FDiv(vo2max_ml_min, weight))

\* calculate_vo2max_from_ftp applying the five-minute formula to the FTP itself
calculate_vo2max_from_ftp_raw(weight, ftp) ==
    LET vo2max_power == FMul(ftp, FtpFactor)
    IN  IF weight.m = <<>> THEN Raise("ZeroDivisionError")
        ELSE LET vo2max_ml_kg_min == FAdd(Intercept5min, FMul(Slope5min, FDiv(ftp, weight)))
                 vo2max_ml_min == FMul(vo2max_ml_kg_min, weight)
             IN  Ok(vo2max_power, FDiv(vo2max_power, weight), vo2max_ml_min,
                    vo2max_ml_kg_min)

calculate_vo2max_from_ftp(weight, ftp) ==
    LET vo2max_power == FMul(ftp, FtpFactor)
    IN  IF weight.m = <<>> THEN Raise("ZeroDivisionError")
        ELSE LET power_to_weight == FDiv(vo2max_power, weight)
                 vo2max_ml_kg_min == FAdd(Intercept5min, FMul(Slope5min, power_to_weight))
                 vo2max_ml_min == FMul(vo2max_ml_kg_min, weight)
             IN  Ok(vo2max_power, power_to_weight, vo2max_ml_min, vo2max_ml_kg_min)

----------------------------------------------------------------------------
(* display_results                                                         *)

\* 10^k
RECURSIVE Pow10(_)
Pow10(k) == IF k = 0 THEN 1 ELSE 10 * Pow10(k - 1)

\* f"{x:.kf}": the decimal with k digits after the point nearest to the
\* exact value of the double x, ties to the even digit, as its sign and its
\* digits read as a whole number of units of 10^-k
Fmt(x, k) ==
    [neg |-> x.s = 1,
     units |-> IF x.m = <<>> THEN 0
               ELSE IF x.e >= 0 THEN BToInt(BShl(BMulSmall(x.m, Pow10(k)), x.e))
               ELSE BToInt(BShrRound(BMulSmall(x.m, Pow10(k)), -x.e))]

\* the rows of the DataFrame built from classification_data
classification_data ==
    << [Category |-> "Poor",      Male |-> "<35",   Female |-> "<30"],
       [Category |-> "Fair",      Male |-> "35-45", Female |-> "30-40"],
       [Category |-> "Good",      Male |-> "45-55", Female |-> "40-50"],
       [Category |-> "Excellent", Male |-> "55-65", Female |-> "50-60"],
       [Category |-> "Elite",     Male |-> ">65",   Female |-> ">60"] >>

\* highlight_row with the first band closed at 35
highlight_row_closed(s, vo2max_ml_kg_min) ==
    LET value == s.Male
        v == vo2max_ml_kg_min
    IN  IF value = "<35" /\ FLe(v, FromInt(35)) THEN TRUE
        ELSE IF value = "35-45" /\ FLe(FromInt(35), v) /\ FLt(v, FromInt(45)) THEN TRUE
        ELSE IF value = "45-55" /\ FLe(FromInt(45), v) /\ FLt(v, FromInt(55)) THEN TRUE
        ELSE IF value = "55-65" /\ FLe(FromInt(55), v) /\ FLt(v, FromInt(65)) THEN TRUE
        ELSE IF value = ">65" /\ FLe(FromInt(65), v) THEN TRUE
        ELSE FALSE

\* highlight_row(s) for the row s: TRUE when the row gets the background
\* colour, FALSE when it gets the empty style
highlight_row(s, vo2max_ml_kg_min) ==
    LET value == s.Male
        v == vo2max_ml_kg_min
    IN  IF value = "<35" /\ FLt(v, FromInt(35)) THEN TRUE
        ELSE IF value = "35-45" /\ FLe(FromInt(35), v) /\ FLt(v, FromInt(45)) THEN TRUE
        ELSE IF value = "45-55" /\ FLe(FromInt(45), v) /\ FLt(v, FromInt(55)) THEN TRUE
        ELSE IF value = "55-65" /\ FLe(FromInt(55), v) /\ FLt(v, FromInt(65)) THEN TRUE
        ELSE IF value = ">65" /\ FLe(FromInt(65), v) THEN TRUE
        ELSE FALSE

\* button with the six-minute button also reading True on the five-minute press
button_shared(key, t) == t = key \/ (key = "calculate_6min" /\ t = "calculate_5min")

\* st.button(key) in a script run caused by widget t
button(key, t) == t = key

\* What display_results renders in a script run caused by widget t on the
\* date now: the four metrics, the styled table, the keyed widgets it creates
\* in order, and the download it offers; args are the values it was given.
display_results(t, now, power_vo2max, power_kg, vo2max_ml_min, vo2max_ml_kg_min) ==
    LET save == button("save_csv", t)
    IN  [kind |-> "results",
         args |-> <<power_vo2max, power_kg, vo2max_ml_min, vo2max_ml_kg_min>>,
         metric_power |-> Fmt(power_vo2max, 0),
         metric_power_kg |-> Fmt(power_kg, 2),
         metric_vo2max |-> Fmt(vo2max_ml_min, 0),
         metric_vo2max_kg |-> Fmt(vo2max_ml_kg_min, 1),
         highlighted |-> {classification_data[i].Category :
                            i \in {j \in 1..Len(classification_data) :
                                     highlight_row(classification_data[j], vo2max_ml_kg_min)}},
         widgets |-> IF save THEN <<"save_csv", "download_csv">> ELSE <<"save_csv">>,
         download |-> IF save
                      THEN [kind |-> "csv",
                            file_name |-> <<"vo2max_results_", now, ".csv">>,
                            Date |-> now,
                            power_vo2max |-> power_vo2max,
                            power_kg |-> power_kg,
                            vo2max_ml_min |-> vo2max_ml_min,
                            vo2max_ml_kg_min |-> vo2max_ml_kg_min]
                      ELSE None]

----------------------------------------------------------------------------
(* The script: four tabs, each with its inputs and its Calculate button    *)

tabs ==
    << [fn |-> "calculate_vo2max_5min", button |-> "calculate_5min",
        keys |-> <<"weight_5min", "power_5min">>],
       [fn |-> "calculate_vo2max_6min", button |-> "calculate_6min",
        keys |-> <<"weight_6min", "power_6min">>],
       [fn |-> "calculate_vo2max_ramp", button |-> "calculate_ramp",
        keys |-> <<"weight_ramp", "power_ramp", "time_ramp">>],
       [fn |-> "calculate_vo2max_from_ftp", button |-> "calculate_ftp",
        keys |-> <<"weight_ftp", "ftp">>] >>

\* the call each tab's button handler makes, on the values of its widgets
call_5min(in) ==
    calculate_vo2max_5min(Kg(in["weight_5min"]), FromInt(in["power_5min"]))

call_6min(in) ==
    calculate_vo2max_6min(Kg(in["weight_6min"]), FromInt(in["power_6min"]))

call_ramp(in) ==
    calculate_vo2max_ramp(Kg(in["weight_ramp"]), FromInt(in["power_ramp"]), in["time_ramp"])

call_ftp(in) ==
    calculate_vo2max_from_ftp(Kg(in["weight_ftp"]), FromInt(in["ftp"]))

\* What a tab's button handler does with the value r of its call: an
\* exception ends the run, a result is displayed.
handler_show(i, t, now, r) ==
    IF r.kind = "raise"
    THEN [widgets |-> <<>>, calls |-> <<tabs[i].fn>>, blocks |-> <<>>, done |-> FALSE]
    ELSE [widgets |-> <<>>, calls |-> <<tabs[i].fn>>,
          blocks |-> <<display_results(t, now, r.power_vo2max, r.power_kg,
                                       r.vo2max_ml_min, r.vo2max_ml_kg_min)>>,
          done |-> TRUE]

\* h followed by rest, which runs only when h ran to its end; the keyed
\* widgets of a result block are created where the block is rendered
then(h, rest) ==
    IF h.done
    THEN [widgets |-> h.widgets \o rest.widgets, calls |-> h.calls \o rest.calls,
          blocks |-> h.blocks \o rest.blocks, done |-> rest.done]
    ELSE h

block_widgets(h) ==
    [h EXCEPT !.widgets = IF h.blocks = <<>> THEN <<>> ELSE h.blocks[1].widgets]

\* One tab in a script run caused by widget t: the widgets it creates, the
\* calculation call it makes, the result block it renders, and whether it
\* ran to its end.  r is the tab's call, made only when its button reads True.
tab_run(i, t, now, r) ==
    then([widgets |-> tabs[i].keys \o <<tabs[i].button>>, calls |-> <<>>,
          blocks |-> <<>>, done |-> TRUE],
         IF button(tabs[i].button, t)
         THEN block_widgets(handler_show(i, t, now, r))
         ELSE [widgets |-> <<>>, calls |-> <<>>, blocks |-> <<>>, done |-> TRUE])

\* One run of the whole script, caused by widget t: the four tabs in order
script_run(t, now, in) ==
    then(tab_run(1, t, now, call_5min(in)),
         then(tab_run(2, t, now, call_6min(in)),
              then(tab_run(3, t, now, call_ramp(in)), tab_run(4, t, now, call_ftp(in)))))

----------------------------------------------------------------------------
(* Spec: the page                                                          *)

Dates == {"2025-06-01", "2025-06-02"}

InputKeys == {"weight_5min", "power_5min", "weight_6min", "power_6min",
              "weight_ramp", "power_ramp", "time_ramp", "weight_ftp", "ftp"}

CalcButtons == {tabs[i].button : i \in 1..Len(tabs)}

\* sample points min, min + stride, ... of a widget's range, with its default
Samples(lo, hi, n, default) ==
    {default} \cup {lo + k * ((hi - lo) \div (n + 1)) : k \in 0..n}

\* the values the model lets the user give a widget
UiValues(key) ==
    IF key \in {"weight_5min", "weight_6min", "weight_ramp", "weight_ftp"}
    THEN {WeightDefault10, WeightMin10}
    ELSE IF key = "power_5min" THEN {Power5Default, PowerMin}
    ELSE IF key = "power_6min" THEN {Power6Default, PowerMax}
    ELSE IF key = "power_ramp" THEN {RampPowerDefault, RampPowerMin}
    ELSE IF key = "time_ramp" THEN {SecsDefault, SecsMax}
    ELSE {FtpDefault, FtpMax}

DefaultInputs ==
    [key \in InputKeys |->
        IF key \in {"weight_5min", "weight_6min", "weight_ramp", "weight_ftp"}
        THEN WeightDefault10
        ELSE IF key = "power_5min" THEN Power5Default
        ELSE IF key = "power_6min" THEN Power6Default
        ELSE IF key = "power_ramp" THEN RampPowerDefault
        ELSE IF key = "time_ramp" THEN SecsDefault
        ELSE FtpDefault]

Init ==
    /\ inputs = DefaultInputs
    /\ trigger = "load"
    /\ \E now \in Dates : page = script_run("load", now, DefaultInputs)
    /\ call = None
    /\ res = None

\* the user changes the value of a number_input: the script reruns
SetInput ==
    \E key \in InputKeys, now \in Dates : \E value \in UiValues(key) :
        /\ value # inputs[key]
        /\ inputs' = [inputs EXCEPT ![key] = value]
        /\ Cardinality({k \in InputKeys : inputs'[k] # DefaultInputs[k]}) <= MaxEdited
        /\ trigger' = key
        /\ page' = script_run(key, now, inputs')
        /\ UNCHANGED <<call, res>>

\* the user presses one of the four Calculate buttons: the script reruns
PressCalculate ==
    \E b \in CalcButtons, now \in Dates :
        /\ trigger' = b
        /\ page' = script_run(b, now, inputs)
        /\ UNCHANGED <<inputs, call, res>>

\* the user presses "Save Results to CSV", which the page must show
PressSave ==
    \E now \in Dates :
        /\ \E i \in 1..Len(page.widgets) : page.widgets[i] = "save_csv"
        /\ trigger' = "save_csv"
        /\ page' = script_run("save_csv", now, inputs)
        /\ UNCHANGED <<inputs, call, res>>

Next == SetInput \/ PressCalculate \/ PressSave

Spec == Init /\ [][Next]_vars

----------------------------------------------------------------------------
(* SpecCalc: the functions called directly                                 *)

CalcFns == {"calculate_vo2max_5min", "calculate_vo2max_6min",
            "calculate_vo2max_ramp", "calculate_vo2max_from_ftp"}

\* weights, in tenths of a kg: the widget's range, zero and a negative one
CalcWeights10 ==
    {-WeightDefault10, 0, WeightMax10}
      \cup Samples(WeightMin10, WeightMax10, WeightSamples, WeightDefault10)

\* powers: the widgets' range, the ramp's stage increment, zero, a negative one
CalcPowers ==
    {-PowerMin, 0, 25} \cup Samples(PowerMin, PowerMax, PowerSamples, Power5Default)
                       \cup {RampPowerDefault, FtpDefault, PowerMax}

\* seconds into the final stage: the widget's range, with its last two values
CalcSecs == Samples(SecsMin, SecsMax, SecsSamples, SecsDefault) \cup {SecsMax - 1, SecsMax}

\* the doubles next to the double a, for a positive and not a power of two
Below(a) == [a EXCEPT !.m = BSub(a.m, <<1>>)]
Above(a) == [a EXCEPT !.m = BAdd(a.m, <<1>>)]

\* values of vo2max_ml_kg_min: every half up to MaxVo2, and for every number
\* the classification table names one thousandth to each side of it and the
\* doubles next to it
CalcVo2 ==
    {Lit(k, 2) : k \in 0..(2 * MaxVo2)}
      \cup {Lit(1000 * e + j, 1000) : e \in {30, 35, 40, 45, 50, 55, 60, 65}, j \in {-1, 1}}
      \cup {Below(FromInt(e)) : e \in {30, 35, 40, 45, 50, 55, 60, 65}}
      \cup {Above(FromInt(e)) : e \in {30, 35, 40, 45, 50, 55, 60, 65}}

\* the call fn(weight, power[, secs]) with the weight in tenths of a kg
Invoke(fn, w10, p, s) ==
    IF fn = "calculate_vo2max_5min" THEN calculate_vo2max_5min(Kg(w10), FromInt(p))
    ELSE IF fn = "calculate_vo2max_6min" THEN calculate_vo2max_6min(Kg(w10), FromInt(p))
    ELSE IF fn = "calculate_vo2max_ramp" THEN calculate_vo2max_ramp(Kg(w10), FromInt(p), s)
    ELSE calculate_vo2max_from_ftp(Kg(w10), FromInt(p))

InitCalc ==
    /\ inputs = DefaultInputs
    /\ trigger = "load"
    /\ page = script_run("load", "2025-06-01", DefaultInputs)
    /\ call = None
    /\ res = None

Called(fn, w10, p, s, v) ==
    [kind |-> "call", fn |-> fn, weight |-> w10, power |-> p, secs |-> s, value |-> v]

Call5min ==
    /\ call = None
    /\ \E w10 \in CalcWeights10, p \in CalcPowers :
            /\ call' = Called("calculate_vo2max_5min", w10, p, 0, FZero(0))
            /\ res' = calculate_vo2max_5min(Kg(w10), FromInt(p))
            /\ UNCHANGED <<inputs, trigger, page>>

Call6min ==
    /\ call = None
    /\ \E w10 \in CalcWeights10, p \in CalcPowers :
            /\ call' = Called("calculate_vo2max_6min", w10, p, 0, FZero(0))
            /\ res' = calculate_vo2max_6min(Kg(w10), FromInt(p))
            /\ UNCHANGED <<inputs, trigger, page>>

CallRamp ==
    /\ call = None
    /\ \E w10 \in CalcWeights10, p \in CalcPowers, s \in CalcSecs :
            /\ call' = Called("calculate_vo2max_ramp", w10, p, s, FZero(0))
            /\ res' = calculate_vo2max_ramp(Kg(w10), FromInt(p), s)
            /\ UNCHANGED <<inputs, trigger, page>>

CallFtp ==
    /\ call = None
    /\ \E w10 \in CalcWeights10, p \in CalcPowers :
            /\ call' = Called("calculate_vo2max_from_ftp", w10, p, 0, FZero(0))
            /\ res' = calculate_vo2max_from_ftp(Kg(w10), FromInt(p))
            /\ UNCHANGED <<inputs, trigger, page>>

\* display_results on a value of vo2max_ml_kg_min, outside any button press
CallDisplay ==
    /\ call = None
    /\ \E v \in CalcVo2, now \in Dates :
            /\ call' = Called("display_results", WeightDefault10, Power5Default, 0, v)
            /\ res' = display_results("none", now, FromInt(Power5Default),
                                      FDiv(FromInt(Power5Default), Kg(WeightDefault10)),
                                      FMul(v, Kg(WeightDefault10)), v)
            /\ UNCHANGED <<inputs, trigger, page>>

\* the caller takes what the call returned or raised
Return ==
    /\ call # None
    /\ call' = None
    /\ res' = None
    /\ UNCHANGED <<inputs, trigger, page>>

NextCalc == Call5min \/ Call6min \/ CallRamp \/ CallFtp \/ CallDisplay \/ Return

SpecCalc == InitCalc /\ [][NextCalc]_vars

----------------------------------------------------------------------------
(* Claims                                                                  *)

IsCalc == call.kind = "call" /\ call.fn \in CalcFns

IsDisplay == call.kind = "call" /\ call.fn = "display_results"

InWidgetRange(w10) == WeightMin10 <= w10 /\ w10 <= WeightMax10

\* the number of times key occurs in the sequence ws
Count(ws, key) == Cardinality({i \in 1..Len(ws) : ws[i] = key})

\* a agrees with b within the relative tolerance 1e-9
Close(a, b) ==
    FLe([FSub(a, b) EXCEPT !.s = 0], FMul(Lit(1, 1000000000), [b EXCEPT !.s = 0]))

\* C1: for a weight, a final stage power and a number of seconds within the
\* widgets' ranges, the ramp calculation returns the power
\* (final power - 25) + (seconds / 60) * 25 and the VO2max
\* (0.01141 * that power + 0.435) * 1000 ml/min, within rounding.
C1_RampKuipers60 ==
    (/\ IsCalc /\ call.fn = "calculate_vo2max_ramp"
     /\ InWidgetRange(call.weight)
     /\ RampPowerMin <= call.power /\ call.power <= PowerMax
     /\ SecsMin <= call.secs /\ call.secs <= SecsMax)
    => /\ res.kind = "ok"
       /\ Close(res.power_vo2max,
                FAdd(FromInt(call.power - 25),
                     FMul(FDiv(FromInt(call.secs), FromInt(60)), FromInt(25))))
       /\ Close(res.vo2max_ml_min,
                FMul(FAdd(FMul(Lit(1141, 100000), res.power_vo2max), Lit(435, 1000)),
                     FromInt(1000)))

\* the category whose male band [lo, hi) holds v
MaleCategory(v) ==
    IF FLt(v, FromInt(35)) THEN "Poor"
    ELSE IF FLt(v, FromInt(45)) THEN "Fair"
    ELSE IF FLt(v, FromInt(55)) THEN "Good"
    ELSE IF FLt(v, FromInt(65)) THEN "Excellent"
    ELSE "Elite"

\* the category whose female band [lo, hi) holds v
FemaleCategory(v) ==
    IF FLt(v, FromInt(30)) THEN "Poor"
    ELSE IF FLt(v, FromInt(40)) THEN "Fair"
    ELSE IF FLt(v, FromInt(50)) THEN "Good"
    ELSE IF FLt(v, FromInt(60)) THEN "Excellent"
    ELSE "Elite"

\* C2: display_results marks exactly one row of the classification table,
\* the one whose male band holds vo2max_ml_kg_min, each band closed below
\* and open above: 35 is Fair, 34.999 is Poor, 65 is Elite.
C2_MaleBands ==
    IsDisplay =>
        /\ Cardinality(res.highlighted) = 1
        /\ res.highlighted = {MaleCategory(call.value)}
        /\ (call.value = FromInt(35) => res.highlighted = {"Fair"})
        /\ (call.value = Lit(34999, 1000) => res.highlighted = {"Poor"})
        /\ (call.value = Below(FromInt(35)) => res.highlighted = {"Poor"})
        /\ (call.value = FromInt(65) => res.highlighted = {"Elite"})

\* C2's case: display_results called on the boundary value 35 marks Fair
C2_Witness == IsDisplay /\ call.value = FromInt(35) /\ res.highlighted = {"Fair"}

\* the precondition of a calculation: positive weight, positive power, and
\* for the ramp test a final stage power above the 25 W increment
Precondition ==
    /\ call.weight > 0
    /\ call.power > 0
    /\ (call.fn = "calculate_vo2max_ramp" => call.power > 25)

\* C3: a calculation called with a violated precondition fails with the
\* error InvalidInput and returns no result.
C3_InvalidInput ==
    (IsCalc /\ ~Precondition) => (res.kind = "raise" /\ res.exc = "InvalidInput")

\* C4 as stated: for a positive weight and a valid power, each of the four
\* calculations returns vo2max_ml_min = vo2max_ml_kg_min * weight and
\* power_kg = power_vo2max / weight.
C4_DerivedFieldsExact ==
    (IsCalc /\ Precondition) =>
        /\ res.kind = "ok"
        /\ res.vo2max_ml_min = FMul(res.vo2max_ml_kg_min, Kg(call.weight))
        /\ res.power_kg = FDiv(res.power_vo2max, Kg(call.weight))

\* C4, amended: for a positive weight and a valid power, each of the four
\* calculations returns power_kg = power_vo2max / weight and a vo2max_ml_min
\* that agrees with vo2max_ml_kg_min * weight within the relative tolerance
\* 1e-9; the five-minute, six-minute and FTP calculations return that
\* product itself, the ramp calculation returns
\* vo2max_ml_kg_min = vo2max_ml_min / weight.
C4_DerivedFields ==
    (IsCalc /\ Precondition) =>
        /\ res.kind = "ok"
        /\ res.power_kg = FDiv(res.power_vo2max, Kg(call.weight))
        /\ Close(res.vo2max_ml_min, FMul(res.vo2max_ml_kg_min, Kg(call.weight)))
        /\ (call.fn # "calculate_vo2max_ramp"
              => res.vo2max_ml_min = FMul(res.vo2max_ml_kg_min, Kg(call.weight)))
        /\ (call.fn = "calculate_vo2max_ramp"
              => res.vo2max_ml_kg_min = FDiv(res.vo2max_ml_min, Kg(call.weight)))

\* C4's case: the ramp calculation has returned a vo2max_ml_min that is not
\* the rounded product vo2max_ml_kg_min * weight, yet agrees with it within
\* the tolerance
C4_Witness ==
    /\ IsCalc /\ call.fn = "calculate_vo2max_ramp" /\ Precondition
    /\ res.kind = "ok"
    /\ res.vo2max_ml_min # FMul(res.vo2max_ml_kg_min, Kg(call.weight))
    /\ Close(res.vo2max_ml_min, FMul(res.vo2max_ml_kg_min, Kg(call.weight)))

\* C5: for a positive weight and a positive FTP, the FTP calculation
\* returns power_vo2max = FTP * 1.17, and its four values are those of the
\* five-minute calculation for the same weight and the power FTP * 1.17.
C5_FtpIsFiveMinute ==
    (IsCalc /\ call.fn = "calculate_vo2max_from_ftp" /\ call.weight > 0 /\ call.power > 0) =>
        /\ res.kind = "ok"
        /\ res.power_vo2max = FMul(FromInt(call.power), Lit(117, 100))
        /\ res = calculate_vo2max_5min(Kg(call.weight),
                                       FMul(FromInt(call.power), Lit(117, 100)))

\* C5's case: the FTP calculation has returned for 70 kg and 250 W: 292.5 W
C5_Witness ==
    /\ IsCalc /\ call.fn = "calculate_vo2max_from_ftp"
    /\ call.weight = WeightDefault10 /\ call.power = FtpDefault
    /\ res.kind = "ok" /\ res.power_vo2max = Lit(585, 2)

\* C6: for each calculation, a fixed positive weight and, for the ramp
\* test, a fixed number of seconds, a strictly larger input power gives a
\* strictly larger vo2max_ml_kg_min.
C6_MonotoneInPower ==
    (IsCalc /\ call.weight > 0) =>
        \A p2 \in CalcPowers :
            call.power < p2 =>
                /\ res.kind = "ok"
                /\ FLt(res.vo2max_ml_kg_min,
                       Invoke(call.fn, call.weight, p2, call.secs).vo2max_ml_kg_min)

\* C6's case: the five-minute calculation has returned for a power below
\* the largest one, so there is a larger power to compare with
C6_Witness ==
    /\ IsCalc /\ call.fn = "calculate_vo2max_5min"
    /\ call.weight = WeightDefault10 /\ call.power = Power5Default
    /\ res.kind = "ok"
    /\ \E p2 \in CalcPowers : p2 > call.power

\* C7: classification takes the sex: for a female the category marked is
\* the one whose female band holds the value (32 is Fair for a female).
C7_FemaleBands ==
    IsDisplay => res.highlighted = {FemaleCategory(call.value)}

\* some result block of page pg offers the download holding the values v
\* in a file named after its date
OffersDownload(pg, v) ==
    \E i \in 1..Len(pg.blocks) :
        /\ pg.blocks[i].download.kind = "csv"
        /\ pg.blocks[i].download.file_name =
             <<"vo2max_results_", pg.blocks[i].download.Date, ".csv">>
        /\ <<pg.blocks[i].download.power_vo2max, pg.blocks[i].download.power_kg,
             pg.blocks[i].download.vo2max_ml_min, pg.blocks[i].download.vo2max_ml_kg_min>> = v

\* C8: when a result is displayed after a Calculate press and the user then
\* presses "Save Results to CSV", the page rendered in response offers the
\* download vo2max_results_<date>.csv whose row holds that result's values.
C8_SaveOffersDownload ==
    [][(trigger \in CalcButtons /\ Len(page.blocks) = 1 /\ trigger' = "save_csv")
         => OffersDownload(page', page.blocks[1].args)]_vars

\* C9: a script run calls at most one calculation function and
\* display_results at most once, so it creates the widgets keyed save_csv
\* and download_csv at most once; a run not caused by a Calculate button
\* calls no calculation function.
C9_OneCallPerRun ==
    /\ Len(page.calls) <= 1
    /\ Len(page.blocks) <= 1
    /\ Count(page.widgets, "save_csv") <= 1
    /\ Count(page.widgets, "download_csv") <= 1
    /\ (trigger \notin CalcButtons => page.calls = <<>>)

\* C9's case: the run caused by the five-minute Calculate press has called
\* its calculation, displayed the result and created the save button
C9_Witness ==
    /\ trigger = "calculate_5min"
    /\ page.calls = <<"calculate_vo2max_5min">>
    /\ Len(page.blocks) = 1
    /\ Count(page.widgets, "save_csv") = 1

\* C10: in the ramp calculation, for a fixed weight and final stage power,
\* power_vo2max never decreases as the seconds into the final stage grow
\* over 0..60, and it lies between final power - 25 and final power.
C10_MonotoneInSeconds ==
    (/\ IsCalc /\ call.fn = "calculate_vo2max_ramp" /\ call.weight > 0
     /\ RampPowerMin <= call.power /\ call.power <= PowerMax
     /\ SecsMin <= call.secs /\ call.secs <= SecsMax) =>
        /\ res.kind = "ok"
        /\ FLe(FromInt(call.power - 25), res.power_vo2max)
        /\ FLe(res.power_vo2max, FromInt(call.power))
        /\ \A s2 \in call.secs..SecsMax :
             FLe(res.power_vo2max, map_power(FromInt(call.power), s2))

====
